---------------------------- MODULE Spec2Model ----------------------------
(***************************************************************************)
(* Model of aiochsa's response decoder (aiochsa/parser.py):                *)
(*   - parse_type: grammar parse of a type declaration followed by the     *)
(*     bottom-up TypeTransformer that calls the registry constructors;     *)
(*   - parse_json_compact: an async generator that reads the whole body,   *)
(*     json.loads it with parse_float=str, resolves one converter per      *)
(*     column and then yields one Record per row on demand.                *)
(* The grammar file (type.lark), the type registry (types.py) and Record   *)
(* (record.py) are modelled from the specification text.                   *)
(***************************************************************************)
EXTENDS Integers, Sequences, FiniteSets, TLC

(***************************************************************************)
(* Bounds of the model.                                                    *)
(***************************************************************************)
\* rows in the "data" list of a response
MaxRows == 2
\* pieces in which the transport delivers the body before EOF
MaxChunks == 2

(***************************************************************************)
(* Small helpers.                                                          *)
(***************************************************************************)
Min(a, b) == IF a < b THEN a ELSE b

SeqsUpTo(S, n) == UNION {[1..k -> S] : k \in 0..n}

Digits == {"0", "1", "2", "3", "4", "5", "6", "7", "8", "9"}

DigitVal(c) ==
  CASE c = "0" -> 0 [] c = "1" -> 1 [] c = "2" -> 2 [] c = "3" -> 3
    [] c = "4" -> 4 [] c = "5" -> 5 [] c = "6" -> 6 [] c = "7" -> 7
    [] c = "8" -> 8 [] c = "9" -> 9

RECURSIVE Pow(_, _)
Pow(b, e) == IF e = 0 THEN 1 ELSE b * Pow(b, e - 1)

\* value of a run of decimal digits
RECURSIVE DigitsVal(_)
DigitsVal(cs) ==
  IF cs = <<>> THEN 0
  ELSE 10 * DigitsVal(SubSeq(cs, 1, Len(cs) - 1)) + DigitVal(cs[Len(cs)])

(***************************************************************************)
(* JSON literals of the body (before json.loads) and Python values (after).*)
(* A float literal keeps its source text as a sequence of characters.      *)
(***************************************************************************)
WInt(n)     == [tok |-> "int",   i |-> n, text |-> <<>>, items |-> <<>>]
WFloat(cs)  == [tok |-> "float", i |-> 0, text |-> cs,   items |-> <<>>]
WString(cs) == [tok |-> "string", i |-> 0, text |-> cs,  items |-> <<>>]
WNull       == [tok |-> "null",  i |-> 0, text |-> <<>>, items |-> <<>>]
WArray(xs)  == [tok |-> "array", i |-> 0, text |-> <<>>, items |-> xs]

PyInt(n)        == [py |-> "int",     i |-> n, e |-> 0, s |-> <<>>, items |-> <<>>]
PyStr(cs)       == [py |-> "str",     i |-> 0, e |-> 0, s |-> cs,   items |-> <<>>]
PyNone          == [py |-> "NoneType", i |-> 0, e |-> 0, s |-> <<>>, items |-> <<>>]
PyList(xs)      == [py |-> "list",    i |-> 0, e |-> 0, s |-> <<>>, items |-> xs]
\* decimal.Decimal: i * 10^e, exactly
PyDecimal(u, x) == [py |-> "Decimal", i |-> u, e |-> x, s |-> <<>>, items |-> <<>>]
\* a binary floating point number: i / 2^e
PyFloat(u, x)   == [py |-> "float",   i |-> u, e |-> x, s |-> <<>>, items |-> <<>>]

\* float(text): the nearest binary float, here with 8 fractional bits
\* (round half up)
BinaryFloat(cs) ==
  LET FloatBits == 8
      dot  == CHOOSE k \in 1..Len(cs) : cs[k] = "."
      frac == Len(cs) - dot
      num  == DigitsVal(SubSeq(cs, 1, dot - 1)) * Pow(10, frac)
                + DigitsVal(SubSeq(cs, dot + 1, Len(cs)))
      den  == Pow(10, frac)
      q    == (2 * num * Pow(2, FloatBits) + den) \div (2 * den)
  IN PyFloat(q, FloatBits)

\* json.loads(..., parse_float=float), the default of the json module
RECURSIVE JsonLoadsBinaryFloat(_)
JsonLoadsBinaryFloat(w) ==
  CASE w.tok = "int"    -> PyInt(w.i)
    [] w.tok = "float"  -> BinaryFloat(w.text)
    [] w.tok = "string" -> PyStr(w.text)
    [] w.tok = "null"   -> PyNone
    [] w.tok = "array"  ->
         PyList([k \in 1..Len(w.items) |-> JsonLoadsBinaryFloat(w.items[k])])

\* json.loads(..., parse_float=str): every float literal, at any depth, is
\* handed to str and so stays the text of the literal
RECURSIVE JsonLoads(_)
JsonLoads(w) ==
  CASE w.tok = "int"    -> PyInt(w.i)
    [] w.tok = "float"  -> PyStr(w.text)
    [] w.tok = "string" -> PyStr(w.text)
    [] w.tok = "null"   -> PyNone
    [] w.tok = "array"  ->
         PyList([k \in 1..Len(w.items) |-> JsonLoads(w.items[k])])

(***************************************************************************)
(* Type declarations: tokens, the grammar of type.lark, the syntax tree.   *)
(***************************************************************************)
Id(name)   == [t |-> "id",    name |-> name, n |-> 0, s |-> <<>>]
LP         == [t |-> "lp",    name |-> "",   n |-> 0, s |-> <<>>]
RP         == [t |-> "rp",    name |-> "",   n |-> 0, s |-> <<>>]
Comma      == [t |-> "comma", name |-> "",   n |-> 0, s |-> <<>>]
Eq         == [t |-> "eq",    name |-> "",   n |-> 0, s |-> <<>>]
IntTok(k)  == [t |-> "int",   name |-> "",   n |-> k, s |-> <<>>]
StrTok(cs) == [t |-> "str",   name |-> "",   n |-> 0, s |-> cs]

\* tree nodes: the rules simple_type and composite_type, and literal leaves
SimpleNode(name)          == [node |-> "simple_type", name |-> name, n |-> 0, s |-> <<>>, args |-> <<>>]
CompositeNode(name, args) == [node |-> "composite_type", name |-> name, n |-> 0, s |-> <<>>, args |-> args]
IntLeaf(k)                == [node |-> "int", name |-> "", n |-> k, s |-> <<>>, args |-> <<>>]
StrLeaf(cs)               == [node |-> "str", name |-> "", n |-> 0, s |-> cs, args |-> <<>>]
PairLeaf(cs, k)           == [node |-> "pair", name |-> "", n |-> k, s |-> cs, args |-> <<>>]

IsTypeNode(node) == node.node \in {"simple_type", "composite_type"}

SyntaxFail == [ok |-> FALSE, node |-> SimpleNode(""), args |-> <<>>, next |-> 0]

\* type_expr := IDENT ( "(" arg ("," arg)* ")" )?
\* arg       := type_expr | literal
\* literal   := STRING | INT | STRING "=" INT
RECURSIVE ParseTypeExpr(_, _)
RECURSIVE ParseArgs(_, _, _)
ParseTypeExpr(toks, p) ==
  IF p > Len(toks) \/ toks[p].t # "id" THEN SyntaxFail
  ELSE IF p + 1 <= Len(toks) /\ toks[p + 1].t = "lp"
       THEN LET r == ParseArgs(toks, p + 2, <<>>)
            IN IF r.ok
               THEN [ok |-> TRUE, node |-> CompositeNode(toks[p].name, r.args),
                     args |-> <<>>, next |-> r.next]
               ELSE SyntaxFail
       ELSE [ok |-> TRUE, node |-> SimpleNode(toks[p].name),
             args |-> <<>>, next |-> p + 1]

ParseArgs(toks, p, acc) ==
  LET one ==
        IF p > Len(toks) THEN SyntaxFail
        ELSE CASE toks[p].t = "int" ->
                    [ok |-> TRUE, node |-> IntLeaf(toks[p].n), args |-> <<>>, next |-> p + 1]
               [] toks[p].t = "str" ->
                    IF p + 2 <= Len(toks) /\ toks[p + 1].t = "eq" /\ toks[p + 2].t = "int"
                    THEN [ok |-> TRUE, node |-> PairLeaf(toks[p].s, toks[p + 2].n),
                          args |-> <<>>, next |-> p + 3]
                    ELSE [ok |-> TRUE, node |-> StrLeaf(toks[p].s), args |-> <<>>, next |-> p + 1]
               [] toks[p].t = "id" -> ParseTypeExpr(toks, p)
               [] OTHER -> SyntaxFail
  IN IF ~one.ok \/ one.next > Len(toks) THEN SyntaxFail
     ELSE CASE toks[one.next].t = "comma" ->
                 ParseArgs(toks, one.next + 1, Append(acc, one.node))
            [] toks[one.next].t = "rp" ->
                 [ok |-> TRUE, node |-> SimpleNode(""), args |-> Append(acc, one.node),
                  next |-> one.next + 1]
            [] OTHER -> SyntaxFail

\* type_parser.parse(type_str): the whole text must be one type_expr
TypeParserParse(toks) ==
  LET r == ParseTypeExpr(toks, 1)
  IN IF r.ok /\ r.next = Len(toks) + 1 THEN r ELSE SyntaxFail

(***************************************************************************)
(* The type registry and its descriptors.                                  *)
(***************************************************************************)
\* a resolved argument: a descriptor, or a literal passed through unchanged
Descriptor(name, params) == [d |-> "type", name |-> name, n |-> 0, s |-> <<>>, params |-> params]
Literal(leaf)            == [d |-> leaf.node, name |-> "", n |-> leaf.n, s |-> leaf.s, params |-> <<>>]

RegistryNames == {"UInt8", "String", "Decimal", "Array", "Nullable", "Tuple"}

\* whether the constructor registered under name accepts these arguments
ConstructorAccepts(name, args) ==
  CASE name \in {"UInt8", "String"} -> args = <<>>
    [] name = "Decimal" -> Len(args) = 2 /\ args[1].d = "int" /\ args[2].d = "int"
    [] name \in {"Array", "Nullable"} -> Len(args) = 1 /\ args[1].d = "type"
    [] name = "Tuple" -> Len(args) >= 1 /\ \A k \in 1..Len(args) : args[k].d = "type"
    [] OTHER -> FALSE

(***************************************************************************)
(* TypeTransformer: lark's Transformer visits the tree bottom-up, children *)
(* left to right, and calls the method named after the rule with the       *)
(* transformed children inlined (v_args(inline=True)).                     *)
(* A result carries the trace of registry lookups and constructor calls.   *)
(***************************************************************************)
Lookup(name)        == [ev |-> "lookup",    name |-> name, args |-> <<>>]
Construct(name, xs) == [ev |-> "construct", name |-> name, args |-> xs]

NoDescriptor == Descriptor("", <<>>)

\* self._types[name](*args)
RegistryCall(name, args) ==
  IF name \notin RegistryNames
  THEN [ok |-> FALSE, err |-> "UnknownTypeError", val |-> NoDescriptor,
        events |-> <<Lookup(name)>>]
  ELSE IF ~ConstructorAccepts(name, args)
  THEN [ok |-> FALSE, err |-> "InvalidTypeArgumentsError", val |-> NoDescriptor,
        events |-> <<Lookup(name), Construct(name, args)>>]
  ELSE [ok |-> TRUE, err |-> "", val |-> Descriptor(name, args),
        events |-> <<Lookup(name), Construct(name, args)>>]

\* a plausible slip: the arguments handed over in reverse
composite_type_reversed(name, types) ==
  RegistryCall(name, [k \in 1..Len(types) |-> types[Len(types) + 1 - k]])

composite_type(name, types) == RegistryCall(name, types)

simple_type(name, params) == RegistryCall(name, <<>>)

start(type_) == type_

RECURSIVE Transform(_)
RECURSIVE TransformChildren(_, _, _, _)
\* children k..Len(args), after vals and events of children 1..k-1
TransformChildren(args, k, vals, events) ==
  IF k > Len(args)
  THEN [ok |-> TRUE, err |-> "", vals |-> vals, events |-> events]
  ELSE LET r == Transform(args[k])
       IN IF r.ok
          THEN TransformChildren(args, k + 1, Append(vals, r.val), events \o r.events)
          ELSE [ok |-> FALSE, err |-> r.err, vals |-> vals, events |-> events \o r.events]

Transform(node) ==
  CASE node.node = "simple_type" -> simple_type(node.name, <<>>)
    [] node.node = "composite_type" ->
         LET cs == TransformChildren(node.args, 1, <<>>, <<>>)
         IN IF ~cs.ok
            THEN [ok |-> FALSE, err |-> cs.err, val |-> NoDescriptor, events |-> cs.events]
            ELSE LET r == composite_type(node.name, cs.vals)
                 IN [r EXCEPT !.events = cs.events \o r.events]
    [] OTHER -> [ok |-> TRUE, err |-> "", val |-> Literal(node), events |-> <<>>]

\* parse_type(types, type_str)
parse_type(type_str) ==
  LET tree == TypeParserParse(type_str)
  IN IF ~tree.ok
     THEN [ok |-> FALSE, err |-> "SyntaxError", val |-> NoDescriptor, events |-> <<>>]
     ELSE LET r == Transform(tree.node)
          IN [r EXCEPT !.val = start(r.val)]

(***************************************************************************)
(* Converters: type_obj.from_json for the registered families.             *)
(***************************************************************************)
ConvOk(v) == [ok |-> TRUE,  val |-> v]
ConvFail  == [ok |-> FALSE, val |-> PyNone]

\* decimal.Decimal(text) for a text of the form digits "." digits
DecimalFromText(cs) ==
  IF \E k \in 1..Len(cs) : cs[k] = "."
  THEN LET dot == CHOOSE k \in 1..Len(cs) : cs[k] = "."
           ip  == SubSeq(cs, 1, dot - 1)
           fp  == SubSeq(cs, dot + 1, Len(cs))
       IN IF (\A k \in 1..Len(ip) : ip[k] \in Digits)
             /\ (\A k \in 1..Len(fp) : fp[k] \in Digits) /\ Len(ip) + Len(fp) > 0
          THEN ConvOk(PyDecimal(DigitsVal(ip \o fp), -Len(fp)))
          ELSE ConvFail
  ELSE IF cs # <<>> /\ \A k \in 1..Len(cs) : cs[k] \in Digits
       THEN ConvOk(PyDecimal(DigitsVal(cs), 0))
       ELSE ConvFail

\* decimal.Decimal(x) for a binary float x = i / 2^e: its exact expansion
DecimalFromFloat(v) == ConvOk(PyDecimal(v.i * Pow(5, v.e), -v.e))

RECURSIVE from_json(_, _)
from_json(desc, v) ==
  CASE desc.name = "UInt8" ->
         IF v.py = "int" /\ v.i >= 0 /\ v.i <= 255 THEN ConvOk(v) ELSE ConvFail
    [] desc.name = "String" ->
         IF v.py = "str" THEN ConvOk(v) ELSE ConvFail
    [] desc.name = "Decimal" ->
         CASE v.py = "str"   -> DecimalFromText(v.s)
           [] v.py = "int"   -> ConvOk(PyDecimal(v.i, 0))
           [] v.py = "float" -> DecimalFromFloat(v)
           [] OTHER          -> ConvFail
    [] desc.name = "Nullable" ->
         IF v.py = "NoneType" THEN ConvOk(PyNone) ELSE from_json(desc.params[1], v)
    [] desc.name = "Array" ->
         IF v.py # "list" THEN ConvFail
         ELSE LET rs == [k \in 1..Len(v.items) |-> from_json(desc.params[1], v.items[k])]
              IN IF \A k \in 1..Len(rs) : rs[k].ok
                 THEN ConvOk(PyList([k \in 1..Len(rs) |-> rs[k].val]))
                 ELSE ConvFail
    [] desc.name = "Tuple" ->
         IF v.py # "list" \/ Len(v.items) # Len(desc.params) THEN ConvFail
         ELSE LET rs == [k \in 1..Len(v.items) |-> from_json(desc.params[k], v.items[k])]
              IN IF \A k \in 1..Len(rs) : rs[k].ok
                 THEN ConvOk(PyList([k \in 1..Len(rs) |-> rs[k].val]))
                 ELSE ConvFail
    [] OTHER -> ConvFail

(***************************************************************************)
(* Record(names=..., values=...): the two lists, kept as given.            *)
(***************************************************************************)
Record(names_, values_) == [names |-> names_, values |-> values_]

(***************************************************************************)
(* Responses the server may send.                                          *)
(***************************************************************************)
Column(name, type) == [name |-> name, type |-> type]

\* Decimal(9, 2)
DeclDecimal == <<Id("Decimal"), LP, IntTok(9), Comma, IntTok(2), RP>>
\* Tuple(UInt8, Array(Nullable(Decimal(9, 2))))
DeclNested ==
  <<Id("Tuple"), LP, Id("UInt8"), Comma, Id("Array"), LP, Id("Nullable"), LP>>
    \o DeclDecimal \o <<RP, RP, RP>>

GoodColumns ==
  { Column("n", <<Id("UInt8")>>),
    Column("amount", DeclDecimal),
    Column("value", DeclNested) }

BadColumns ==
  { \* a name the registry does not hold
    Column("x", <<Id("Foo")>>),
    \* the same, nested: Array(Foo)
    Column("x", <<Id("Array"), LP, Id("Foo"), RP>>),
    \* a constructor that rejects its arguments: Decimal(9)
    Column("x", <<Id("Decimal"), LP, IntTok(9), RP>>),
    \* a composite name used bare: Array
    Column("x", <<Id("Array")>>),
    \* a syntax error: Array(UInt8
    Column("x", <<Id("Array"), LP, Id("UInt8")>>) }

Metas ==
  SeqsUpTo(GoodColumns, 2)
    \cup {<<b>> : b \in BadColumns}
    \cup {<<Column("n", <<Id("UInt8")>>), b>> : b \in BadColumns}
    \cup {<<b, Column("n", <<Id("UInt8")>>)>> : b \in BadColumns}

Text123 == <<"1", ".", "2", "3">>

\* [7, [1.23, null]]
NestedValue == WArray(<<WInt(7), WArray(<<WFloat(Text123), WNull>>)>>)

ScalarValues == {WInt(7), WFloat(Text123)}

\* rows of up to two values: aligned with, shorter and longer than the columns
Rows ==
  SeqsUpTo(ScalarValues, 2)
    \cup {<<WInt(300)>>, <<WInt(7), WInt(300)>>,
          <<NestedValue>>, <<WFloat(Text123), NestedValue>>}

Envelopes == {[meta |-> m, data |-> d] : m \in Metas, d \in SeqsUpTo(Rows, MaxRows)}

(***************************************************************************)
(* State.                                                                  *)
(***************************************************************************)
VARIABLES
  wire,       \* the body content.read() returned: meta and data, JSON literals
  arrived,    \* pieces of the body waiting in the StreamReader
  eof,        \* the transport has delivered the whole body
  pc,         \* where the generator parse_json_compact stands
  reads,      \* completed content.read() calls
  response,   \* json.loads of the body
  names,      \* names (line 46)
  converters, \* converters (line 47); a converter is its descriptor's from_json
  rowIdx,     \* rows taken by the for loop of line 53
  emitted,    \* Records handed to the consumer, in order
  requested,  \* __anext__ calls of the consumer
  parseLog,   \* parse_type calls: column index and registry trace
  convLog,    \* converter applications: row, column, argument
  error       \* the exception that ended the generator

vars == <<wire, arrived, eof, pc, reads, response, names, converters, rowIdx,
          emitted, requested, parseLog, convLog, error>>

NoError == [kind |-> "", column |-> "", row |-> -1, value |-> PyNone]

\* what parse_type raises: nothing of the column is attached by the caller
TypeError(kind) == [kind |-> kind, column |-> "", row |-> -1, value |-> PyNone]

\* what a converter raises from from_json(value): it is handed the value alone
DecodeError(v) == [kind |-> "DecodeValueError", column |-> "", row |-> -1, value |-> v]

Init ==
  /\ wire = [meta |-> <<>>, data |-> <<>>]
  /\ arrived = 0
  /\ eof = FALSE
  /\ pc = "created"
  /\ reads = 0
  /\ response = [meta |-> <<>>, data |-> <<>>]
  /\ names = <<>>
  /\ converters = <<>>
  /\ rowIdx = 0
  /\ emitted = <<>>
  /\ requested = 0
  /\ parseLog = <<>>
  /\ convLog = <<>>
  /\ error = NoError

(***************************************************************************)
(* The transport (aiohttp's StreamReader, fed by the connection).          *)
(***************************************************************************)
Feed ==
  /\ ~eof
  /\ arrived < MaxChunks
  /\ arrived' = arrived + 1
  /\ UNCHANGED <<wire, eof, pc, reads, response, names, converters, rowIdx,
                 emitted, requested, parseLog, convLog, error>>

FeedEof ==
  /\ ~eof
  /\ arrived >= 1
  /\ eof' = TRUE
  /\ UNCHANGED <<wire, arrived, pc, reads, response, names, converters, rowIdx,
                 emitted, requested, parseLog, convLog, error>>

(***************************************************************************)
(* The consumer of the async generator.                                    *)
(***************************************************************************)
\* __anext__: starts the generator, or resumes it after a yield
Request ==
  /\ pc \in {"created", "suspended"}
  /\ requested' = requested + 1
  /\ pc' = IF pc = "created" THEN "reading" ELSE "rows"
  /\ UNCHANGED <<wire, arrived, eof, reads, response, names, converters, rowIdx,
                 emitted, parseLog, convLog, error>>

\* the consumer stops iterating (aclose) at a row boundary
Close ==
  /\ pc \in {"created", "suspended"}
  /\ pc' = "closed"
  /\ UNCHANGED <<wire, arrived, eof, reads, response, names, converters, rowIdx,
                 emitted, requested, parseLog, convLog, error>>

(***************************************************************************)
(* parse_json_compact, statement by statement.                             *)
(***************************************************************************)
\* json.loads(body, parse_float=str) of the envelope
LoadEnvelope(body) ==
  [meta |-> body.meta,
   data |-> [k \in 1..Len(body.data) |->
              [j \in 1..Len(body.data[k]) |-> JsonLoads(body.data[k][j])]]]

\* a plausible slip: read() returning what has arrived so far, before EOF
ReadBodyEarly ==
  /\ pc = "reading"
  /\ arrived >= 1
  /\ reads' = reads + 1
  /\ arrived' = 0
  /\ \E body \in Envelopes :
       /\ wire' = body
       /\ response' = LoadEnvelope(body)
  /\ pc' = "meta"
  /\ UNCHANGED <<eof, names, converters, rowIdx, emitted, requested,
                 parseLog, convLog, error>>

\* line 44: await content.read() returns at EOF with the whole body
ReadBody ==
  /\ pc = "reading"
  /\ eof
  /\ reads' = reads + 1
  /\ arrived' = 0
  /\ \E body \in Envelopes :
       /\ wire' = body
       /\ response' = LoadEnvelope(body)
  /\ pc' = "meta"
  /\ UNCHANGED <<eof, names, converters, rowIdx, emitted, requested,
                 parseLog, convLog, error>>

\* a plausible slip: a declaration that does not resolve is kept as a broken
\* converter and the error is left to row decoding
ResolveColumnDeferred ==
  /\ pc = "meta"
  /\ Len(names) < Len(response.meta)
  /\ LET i      == Len(names) + 1
         column == response.meta[i]
         r      == parse_type(column.type)
     IN /\ names' = Append(names, column.name)
        /\ parseLog' = Append(parseLog, [col |-> i, ok |-> r.ok, val |-> r.val,
                                         events |-> r.events])
        /\ converters' = Append(converters, r.val)
  /\ UNCHANGED <<wire, arrived, eof, pc, error, reads, response, rowIdx, emitted,
                 requested, convLog>>

\* lines 48-51: one iteration of the loop over response['meta']
ResolveColumn ==
  /\ pc = "meta"
  /\ Len(names) < Len(response.meta)
  /\ LET i      == Len(names) + 1
         column == response.meta[i]
         r      == parse_type(column.type)
     IN /\ names' = Append(names, column.name)
        /\ parseLog' = Append(parseLog, [col |-> i, ok |-> r.ok, val |-> r.val,
                                         events |-> r.events])
        /\ IF r.ok
           THEN /\ converters' = Append(converters, r.val)
                /\ UNCHANGED <<pc, error>>
           ELSE /\ pc' = "failed"
                /\ error' = TypeError(r.err)
                /\ UNCHANGED converters
  /\ UNCHANGED <<wire, arrived, eof, reads, response, rowIdx, emitted, requested,
                 convLog>>

\* the generator stands at the head of the loop of line 53
AtRowLoop ==
  \/ pc = "rows"
  \/ pc = "meta" /\ Len(names) = Len(response.meta)

\* zip(converters, row) stops at the shorter of the two lists
ZipLen(cs, row) == Min(Len(cs), Len(row))

\* a plausible slip: the first converter applied to every value of the row
ConvertAllFirstConverter(cs, row) ==
  [j \in 1..ZipLen(cs, row) |-> from_json(cs[1], row[j])]

\* lines 56-59: [converter(value) for converter, value in zip(converters, row)]
ConvertAll(cs, row) == [j \in 1..ZipLen(cs, row) |-> from_json(cs[j], row[j])]

\* the first position whose conversion raises, 0 if none does
FirstFailure(rs) ==
  IF \A j \in 1..Len(rs) : rs[j].ok THEN 0
  ELSE CHOOSE j \in 1..Len(rs) : ~rs[j].ok /\ \A h \in 1..(j - 1) : rs[h].ok

\* a plausible slip: a row that fails to convert is skipped (best effort)
ConvertRowSkipping ==
  /\ AtRowLoop
  /\ rowIdx < Len(response.data)
  /\ LET row  == response.data[rowIdx + 1]
         rs   == ConvertAll(converters, row)
         f    == FirstFailure(rs)
         last == IF f = 0 THEN Len(rs) ELSE f
     IN /\ rowIdx' = rowIdx + 1
        /\ convLog' = convLog \o [j \in 1..last |->
                                    [row |-> rowIdx + 1, col |-> j, arg |-> row[j]]]
        /\ IF f = 0
           THEN /\ emitted' = Append(emitted,
                                Record(names, [j \in 1..Len(rs) |-> rs[j].val]))
                /\ pc' = "suspended"
                /\ UNCHANGED error
           ELSE /\ pc' = "rows"
                /\ error' = DecodeError(row[f])
                /\ UNCHANGED emitted
  /\ UNCHANGED <<wire, arrived, eof, reads, response, names, converters, requested,
                 parseLog>>

\* a plausible slip: the declarations are parsed again for every row
ConvertRowReparsing ==
  /\ AtRowLoop
  /\ rowIdx < Len(response.data)
  /\ LET row  == response.data[rowIdx + 1]
         ps   == [j \in 1..Len(response.meta) |-> parse_type(response.meta[j].type)]
         rs   == [j \in 1..ZipLen(ps, row) |-> from_json(ps[j].val, row[j])]
         f    == FirstFailure(rs)
         last == IF f = 0 THEN Len(rs) ELSE f
     IN /\ rowIdx' = rowIdx + 1
        /\ parseLog' = parseLog \o [j \in 1..Len(ps) |->
                                      [col |-> j, ok |-> ps[j].ok, val |-> ps[j].val,
                                       events |-> ps[j].events]]
        /\ convLog' = convLog \o [j \in 1..last |->
                                    [row |-> rowIdx + 1, col |-> j, arg |-> row[j]]]
        /\ IF f = 0
           THEN /\ emitted' = Append(emitted,
                                Record(names, [j \in 1..Len(rs) |-> rs[j].val]))
                /\ pc' = "suspended"
                /\ UNCHANGED error
           ELSE /\ pc' = "failed"
                /\ error' = DecodeError(row[f])
                /\ UNCHANGED emitted
  /\ UNCHANGED <<wire, arrived, eof, reads, response, names, converters, requested>>

\* a plausible slip: the rows are converted in one go, without waiting for
\* the consumer between two Records
ConvertRowEager ==
  /\ AtRowLoop
  /\ rowIdx < Len(response.data)
  /\ LET row  == response.data[rowIdx + 1]
         rs   == ConvertAll(converters, row)
         f    == FirstFailure(rs)
         last == IF f = 0 THEN Len(rs) ELSE f
     IN /\ rowIdx' = rowIdx + 1
        /\ convLog' = convLog \o [j \in 1..last |->
                                    [row |-> rowIdx + 1, col |-> j, arg |-> row[j]]]
        /\ IF f = 0
           THEN /\ emitted' = Append(emitted,
                                Record(names, [j \in 1..Len(rs) |-> rs[j].val]))
                /\ pc' = IF rowIdx + 1 < Len(response.data) THEN "rows" ELSE "suspended"
                /\ UNCHANGED error
           ELSE /\ pc' = "failed"
                /\ error' = DecodeError(row[f])
                /\ UNCHANGED emitted
  /\ UNCHANGED <<wire, arrived, eof, reads, response, names, converters, requested,
                 parseLog>>

\* lines 53-60: one iteration of the loop over response['data']
ConvertRow ==
  /\ AtRowLoop
  /\ rowIdx < Len(response.data)
  /\ LET row  == response.data[rowIdx + 1]
         rs   == ConvertAll(converters, row)
         f    == FirstFailure(rs)
         last == IF f = 0 THEN Len(rs) ELSE f
     IN /\ rowIdx' = rowIdx + 1
        /\ convLog' = convLog \o [j \in 1..last |->
                                    [row |-> rowIdx + 1, col |-> j, arg |-> row[j]]]
        /\ IF f = 0
           THEN /\ emitted' = Append(emitted,
                                Record(names, [j \in 1..Len(rs) |-> rs[j].val]))
                /\ pc' = "suspended"
                /\ UNCHANGED error
           ELSE /\ pc' = "failed"
                /\ error' = DecodeError(row[f])
                /\ UNCHANGED emitted
  /\ UNCHANGED <<wire, arrived, eof, reads, response, names, converters, requested,
                 parseLog>>

\* the loop of line 53 is exhausted: StopAsyncIteration
Finish ==
  /\ AtRowLoop
  /\ rowIdx = Len(response.data)
  /\ pc' = "done"
  /\ UNCHANGED <<wire, arrived, eof, reads, response, names, converters, rowIdx,
                 emitted, requested, parseLog, convLog, error>>

Next ==
  \/ Feed
  \/ FeedEof
  \/ Request
  \/ Close
  \/ ReadBody
  \/ ResolveColumn
  \/ ConvertRow
  \/ Finish

Spec == Init /\ [][Next]_vars

(***************************************************************************)
(* Vocabulary of the properties.                                           *)
(***************************************************************************)
TypeErrorKinds == {"SyntaxError", "UnknownTypeError", "InvalidTypeArgumentsError"}

ColumnNames(meta) == [i \in 1..Len(meta) |-> meta[i].name]

IsPrefix(a, b) == Len(a) <= Len(b) /\ a = SubSeq(b, 1, Len(a))

\* the Python value v is the JSON literal w with every float literal kept as
\* its text and every other literal as json decodes it
RECURSIVE Faithful(_, _)
Faithful(w, v) ==
  CASE w.tok = "float"  -> v.py = "str" /\ v.s = w.text
    [] w.tok = "int"    -> v.py = "int" /\ v.i = w.i
    [] w.tok = "string" -> v.py = "str" /\ v.s = w.text
    [] w.tok = "null"   -> v.py = "NoneType"
    [] w.tok = "array"  ->
         /\ v.py = "list"
         /\ Len(v.items) = Len(w.items)
         /\ \A k \in 1..Len(w.items) : Faithful(w.items[k], v.items[k])

\* the descriptor a syntax tree denotes
RECURSIVE Denote(_)
Denote(node) ==
  IF IsTypeNode(node)
  THEN Descriptor(node.name, [k \in 1..Len(node.args) |-> Denote(node.args[k])])
  ELSE Literal(node)

\* the registry trace of a depth-first, left-to-right, bottom-up resolution:
\* the traces of the arguments, then the node's own lookup and constructor call
RECURSIVE PostOrderTrace(_)
RECURSIVE PostOrderTraces(_, _)
PostOrderTraces(args, k) ==
  IF k > Len(args) THEN <<>>
  ELSE PostOrderTrace(args[k]) \o PostOrderTraces(args, k + 1)

PostOrderTrace(node) ==
  IF IsTypeNode(node)
  THEN PostOrderTraces(node.args, 1)
         \o <<Lookup(node.name),
              Construct(node.name, [k \in 1..Len(node.args) |-> Denote(node.args[k])])>>
  ELSE <<>>

\* the envelope is as the server builds it: every row has one value per column
RowsAligned == \A k \in 1..Len(wire.data) : Len(wire.data[k]) = Len(wire.meta)

\* every column has been resolved and the generator is at or past the rows
ResolutionDone ==
  \/ rowIdx > 0
  \/ pc \in {"rows", "suspended", "done"}
  \/ pc = "meta" /\ Len(names) = Len(response.meta)

(***************************************************************************)
(* C1. When every conversion succeeds the generator yields one Record per  *)
(* row, in input order, none skipped or repeated; the i-th value of the    *)
(* k-th Record is column i's converter applied to the i-th raw value of    *)
(* row k, and the names are the column names in the order of the metadata. *)
(***************************************************************************)
C1_RecordsPositionalInOrder ==
  /\ \A k \in 1..Len(emitted) :
       LET row == wire.data[k]
           rec == emitted[k]
       IN /\ rec.names = ColumnNames(wire.meta)
          /\ Len(row) = Len(wire.meta) => Len(rec.values) = Len(wire.meta)
          /\ \A i \in 1..Len(rec.values) :
               LET c == from_json(parse_type(wire.meta[i].type).val, JsonLoads(row[i]))
               IN c.ok /\ rec.values[i] = c.val
  /\ error.kind = "" => Len(emitted) = rowIdx
  /\ pc = "done" => Len(emitted) = Len(wire.data)

C1_Witness ==
  /\ pc = "done"
  /\ Len(emitted) = 2
  /\ Len(wire.meta) = 2
  /\ wire.meta[1] # wire.meta[2]
  /\ Len(emitted[1].values) = 2
  /\ emitted[1] # emitted[2]

(***************************************************************************)
(* C2, as claimed. A conversion failure in any row leaves the consumer     *)
(* with no Record at all of the response (stated for the envelopes whose   *)
(* rows are aligned with the columns).                                     *)
(***************************************************************************)
C2_NoRecordOnFailure ==
  (error.kind = "DecodeValueError" /\ RowsAligned) => emitted = <<>>

(***************************************************************************)
(* C2, amended. A conversion failure in row k ends the generator at that   *)
(* row: the consumer holds exactly the Records of rows 1..k-1, which were  *)
(* yielded before the failure, no Record of row k, and no value of a later *)
(* row is converted.                                                       *)
(***************************************************************************)
C2_AbortAtFailingRow ==
  error.kind = "DecodeValueError" =>
    /\ pc = "failed"
    /\ rowIdx >= 1
    /\ Len(emitted) = rowIdx - 1
    /\ \A j \in 1..Len(convLog) : convLog[j].row <= rowIdx
    /\ convLog # <<>> /\ convLog[Len(convLog)].row = rowIdx

C2_Witness ==
  /\ error.kind = "DecodeValueError"
  /\ rowIdx = 2
  /\ Len(emitted) = 1
  /\ Len(wire.data) = 2

(***************************************************************************)
(* C3. The failure of a conversion, as delivered to the caller, names the  *)
(* column and the (zero-based) row index of the value that failed (stated  *)
(* for the envelopes whose rows are aligned with the columns).             *)
(***************************************************************************)
C3_FailureNamesColumnAndRow ==
  (error.kind = "DecodeValueError" /\ RowsAligned) =>
    LET e == convLog[Len(convLog)]
    IN /\ error.column = names[e.col]
       /\ error.row = e.row - 1

(***************************************************************************)
(* C4. parse_type is called once per column, in column order, however many *)
(* rows there are; the converter it gave for column i is the one applied   *)
(* to the i-th value of every row, and nothing is parsed during the rows.  *)
(***************************************************************************)
C4_ParseOncePerColumn ==
  /\ Len(parseLog) <= Len(wire.meta)
  /\ \A k \in 1..Len(parseLog) : parseLog[k].col = k
  /\ ResolutionDone => Len(parseLog) = Len(wire.meta)
  /\ \A i \in 1..Len(converters) : converters[i] = parseLog[i].val
  /\ \A k \in 1..Len(emitted) : \A i \in 1..Len(emitted[k].values) :
       emitted[k].values[i] = from_json(converters[i], JsonLoads(wire.data[k][i])).val

C4_Witness ==
  /\ pc = "done"
  /\ Len(emitted) = 2
  /\ Len(wire.meta) = 2
  /\ Len(parseLog) = 2
  /\ Len(convLog) = 4

(***************************************************************************)
(* C5. The sequence is lazy: every column is resolved before the first     *)
(* Record, the values of row k are converted only once the consumer has    *)
(* asked for the k-th Record, and a consumer that stops after j Records    *)
(* causes no conversion of a value of a later row.                         *)
(***************************************************************************)
C5_LazyRows ==
  /\ (emitted # <<>> \/ convLog # <<>>) => Len(converters) = Len(wire.meta)
  /\ \A j \in 1..Len(convLog) : convLog[j].row <= requested
  /\ rowIdx <= requested
  /\ Len(emitted) <= requested
  /\ pc \in {"suspended", "closed"} =>
       \A j \in 1..Len(convLog) : convLog[j].row <= Len(emitted)

C5_Witness ==
  /\ pc = "closed"
  /\ Len(emitted) = 1
  /\ Len(wire.data) = 2
  /\ Len(wire.data[2]) >= 1
  /\ Len(converters) >= 1
  /\ convLog # <<>>

(***************************************************************************)
(* C6. A declaration that does not parse or resolve fails the generator    *)
(* during descriptor resolution, at that column: no converter has been or  *)
(* will be applied and no Record is yielded, also when the column is the   *)
(* last one and when there are no rows.                                    *)
(***************************************************************************)
C6_ResolutionFailsEarly ==
  /\ error.kind \in TypeErrorKinds =>
       /\ pc = "failed"
       /\ convLog = <<>> /\ emitted = <<>> /\ rowIdx = 0
       /\ ~parse_type(wire.meta[Len(names)].type).ok
       /\ error.kind = parse_type(wire.meta[Len(names)].type).err
  /\ (convLog # <<>> \/ emitted # <<>> \/ rowIdx > 0 \/ pc = "done") =>
       \A i \in 1..Len(wire.meta) : parse_type(wire.meta[i].type).ok

C6_Witness ==
  /\ error.kind = "InvalidTypeArgumentsError"
  /\ Len(wire.meta) = 2
  /\ Len(names) = 2
  /\ wire.data = <<>>

(***************************************************************************)
(* C7. Every float literal of the data reaches its converter as the text   *)
(* of the literal, at any depth of nesting, and never as a binary float;   *)
(* integer literals stay integers; a Decimal column given the literal 1.23 *)
(* yields exactly 123 * 10^-2.                                             *)
(***************************************************************************)
C7_FloatsStayText ==
  /\ \A j \in 1..Len(convLog) :
       Faithful(wire.data[convLog[j].row][convLog[j].col], convLog[j].arg)
  /\ \A k \in 1..Len(emitted) : \A i \in 1..Len(emitted[k].values) :
       /\ (wire.meta[i].type = DeclDecimal /\ wire.data[k][i] = WFloat(Text123))
            => emitted[k].values[i] = PyDecimal(123, -2)
       /\ (wire.meta[i].type = DeclNested /\ wire.data[k][i] = NestedValue)
            => emitted[k].values[i].items[2].items[1] = PyDecimal(123, -2)

C7_Witness ==
  /\ Len(emitted) = 2
  /\ Len(wire.meta) = 2
  /\ wire.meta[1].type = DeclDecimal
  /\ wire.meta[2].type = DeclNested
  /\ wire.data[1] = <<WFloat(Text123), NestedValue>>
  /\ wire.data[2] = <<WFloat(Text123), NestedValue>>
  /\ Len(convLog) = 4

(***************************************************************************)
(* C8. The body is read once, to its end, before any declaration is        *)
(* resolved and before any Record is produced; nothing is read from or     *)
(* awaited on the byte source afterwards.                                  *)
(***************************************************************************)
C8_ReadOnceToEnd ==
  /\ reads <= 1
  /\ reads = 1 => eof /\ arrived = 0
  /\ (parseLog # <<>> \/ convLog # <<>> \/ emitted # <<>>
        \/ pc \in {"meta", "rows", "suspended", "done", "failed"}) => reads = 1
  /\ pc = "reading" => reads = 0

C8_Witness ==
  /\ reads = 1
  /\ pc = "suspended"
  /\ Len(emitted) = 2
  /\ requested = 2

(***************************************************************************)
(* C9. Resolution is bottom-up: the arguments of a composite node are      *)
(* resolved, left to right, before the node's constructor is looked up and *)
(* called with them in their declared order; a simple node's constructor   *)
(* is called with no arguments; parse_type returns the descriptor of the   *)
(* outermost node.                                                         *)
(***************************************************************************)
C9_BottomUpResolution ==
  \A k \in 1..Len(parseLog) :
    LET p    == parseLog[k]
        tree == TypeParserParse(wire.meta[p.col].type)
    IN tree.ok =>
         /\ IsPrefix(p.events, PostOrderTrace(tree.node))
         /\ p.ok => /\ p.events = PostOrderTrace(tree.node)
                    /\ p.val = Denote(tree.node)
         /\ ~p.ok => Len(p.events) < Len(PostOrderTrace(tree.node))
                       \/ p.events[Len(p.events)].ev = "construct"

C9_Witness ==
  \E k \in 1..Len(parseLog) :
    /\ parseLog[k].ok
    /\ wire.meta[parseLog[k].col].type = DeclNested
    /\ Len(parseLog[k].events) = 10

(***************************************************************************)
(* C10, as claimed. Every Record has one value per column, and a row whose *)
(* length differs from the number of columns never becomes a Record.       *)
(***************************************************************************)
C10_OneValuePerColumn ==
  \A k \in 1..Len(emitted) :
    /\ Len(emitted[k].values) = Len(emitted[k].names)
    /\ Len(wire.data[k]) = Len(wire.meta)

=============================================================================
